---- MODULE Spec2Model ----
(***************************************************************************)
(* Model of qmark.py: a gevent benchmark in which client greenlets (ctask) *)
(* pass a text message round-robin through server greenlets (qtask) that   *)
(* relay it back.  Text is modelled as sequences of one-character strings, *)
(* so that str.split, str.join, build_id and parse_id are computed as the  *)
(* Python code computes them.                                              *)
(***************************************************************************)
EXTENDS Integers, Sequences, FiniteSets, TLC

\* ------------------------------------------------------------------ bounds
MaxQtasks == 2
MaxCtasks == 2
MaxElapsed == 2
MaxRuns == 2
MaxHarnessQtasks == 1
MaxHarnessCtasks == 1
MaxInbox == 2
MaxIdx == 11
MaxKindLen == 2
MaxTokens == 2

\* -------------------------------------------------------------- variables
VARIABLES
    num_qtasks,     \* QMark.num_qtasks
    num_ctasks,     \* QMark.num_ctasks
    qtask_queues,   \* QMark.qtask_queues: index -> FIFO of messages
    ctask_queues,   \* QMark.ctask_queues: index -> FIFO of messages
    qstate,         \* state of each qtask greenlet
    cstate,         \* state of each ctask greenlet
    count,          \* local `count` of each ctask
    dst_ix,         \* local `dst_ix` of each ctask
    run_pc,         \* position of QMark.run
    exit_ix,        \* position of the `for qq in self.qtask_queues` loop
    csent,          \* history: per ctask, the puts it made (dst, msg)
    crecv,          \* history: per ctask, the messages it dequeued
    qdeq,           \* history: per qtask, the messages it dequeued
    qfwd,           \* history: per qtask, the puts it made (dst, msg)
    qenq,           \* history: per qtask queue, every message put on it
    result,         \* `result` of QMark.run: the elapsed time, in clock ticks
    harness_pc,     \* position of run_qmark ("none": run is called directly)
    num_runs_arg,   \* history: num_runs as passed to run_qmark
    num_runs,       \* run_qmark: num_runs
    run_ix,         \* run_qmark: number of iterations of the loop done
    runs,           \* run_qmark: the list `runs`
    rlog,           \* history: the values returned by run, in order
    left_over,      \* history: messages left in the queues by the last run
    codec           \* input and output of an identifier or envelope codec call

vars == <<num_qtasks, num_ctasks, qtask_queues, ctask_queues, qstate, cstate,
          count, dst_ix, run_pc, exit_ix, csent, crecv, qdeq, qfwd, qenq,
          result, harness_pc, num_runs_arg, num_runs, run_ix, runs, rlog,
          left_over, codec>>

\* what run_qmark owns, and the codec scratch: no step of a run changes them
xvars == <<harness_pc, num_runs_arg, num_runs, run_ix, runs, left_over, codec>>

\* ------------------------------------------------------------------- text
Digits == <<"0", "1", "2", "3", "4", "5", "6", "7", "8", "9">>

\* str(idx) for a non-negative integer
RECURSIVE str(_)
str(n) == IF n < 10 THEN <<Digits[n + 1]>>
          ELSE str(n \div 10) \o <<Digits[(n % 10) + 1]>>

IsDigit(ch) == \E d \in 1..10 : Digits[d] = ch

DigitVal(ch) == (CHOOSE d \in 1..10 : Digits[d] = ch) - 1

\* int(text) is defined on a non-empty run of decimal digits
IsInt(s) == Len(s) > 0 /\ \A k \in 1..Len(s) : IsDigit(s[k])

RECURSIVE int(_)
int(s) == IF Len(s) = 1 THEN DigitVal(s[1])
          ELSE 10 * int(SubSeq(s, 1, Len(s) - 1)) + DigitVal(s[Len(s)])

\* str.index(ch): position of the first ch (1-based), 0 when absent
IndexOf(s, ch) == IF \E k \in 1..Len(s) : s[k] = ch
                  THEN CHOOSE k \in 1..Len(s) :
                         s[k] = ch /\ \A j \in 1..(k - 1) : s[j] # ch
                  ELSE 0

\* str.split(sep) with a one-character separator: the pieces between
\* consecutive occurrences of sep, empty pieces included
Split(s, sep) ==
    LET P      == {k \in 1..Len(s) : s[k] = sep}
        nth(j) == IF j = 0 THEN 0
                  ELSE IF j = Cardinality(P) + 1 THEN Len(s) + 1
                  ELSE CHOOSE k \in P : Cardinality({x \in P : x < k}) = j - 1
    IN  [j \in 1..(Cardinality(P) + 1) |->
            SubSeq(s, nth(j - 1) + 1, nth(j) - 1)]

\* sep.join(parts)
RECURSIVE Join(_, _)
Join(parts, sep) ==
    IF Len(parts) = 0 THEN <<>>
    ELSE IF Len(parts) = 1 THEN parts[1]
    ELSE parts[1] \o <<sep>> \o Join(Tail(parts), sep)

S_queue == <<"q", "u", "e", "u", "e">>
S_exit  == <<"e", "x", "i", "t">>
S_cq    == <<"c", "q">>
S_ct    == <<"c", "t">>
S_ctask == <<"c", "t", "a", "s", "k">>
S_qtask == <<"q", "t", "a", "s", "k">>

\* the literal 'exit::'
ExitMsg == S_exit \o <<":", ":">>

\* ---------------------------------------------------------- identifiers
build_id(name, idx) == name \o <<"(">> \o str(idx) \o <<")">>

\* variant: the index slice starts one character early, at the '('
parse_id_early(tid) ==
    LET p    == IndexOf(tid, "(")
        name == SubSeq(tid, 1, p - 1)
        idx  == SubSeq(tid, Len(name) + 1, Len(tid) - 1)
    IN  IF p = 0 \/ ~IsInt(idx)
        THEN [ok |-> FALSE, name |-> <<>>, idx |-> 0]
        ELSE [ok |-> TRUE, name |-> name, idx |-> int(idx)]

\* parse_id: ok is FALSE where Python raises ValueError
parse_id(tid) ==
    LET p    == IndexOf(tid, "(")
        name == SubSeq(tid, 1, p - 1)
        idx  == SubSeq(tid, Len(name) + 2, Len(tid) - 1)
    IN  IF p = 0 \/ ~IsInt(idx)
        THEN [ok |-> FALSE, name |-> <<>>, idx |-> 0]
        ELSE [ok |-> TRUE, name |-> name, idx |-> int(idx)]

\* ----------------------------------------------------------------- queues
\* variant: the queue handed out is a used one that still holds a message
Queue_stale == <<ExitMsg>>

\* Queue(): a new gevent queue is empty
Queue == <<>>

\* variant: the message is enqueued twice
Queue_put_twice(queue, msg) == Append(Append(queue, msg), msg)

\* Queue.put(msg) on an unbounded queue: msg becomes the last element
Queue_put(queue, msg) == Append(queue, msg)

\* ------------------------------------------------------------ task ranges
Qtasks == 0..(num_qtasks - 1)
Ctasks == 0..(num_ctasks - 1)

\* a greenlet is dead once it returned or raised; joinall waits for that
Dead(st) == st \in {"Terminated", "Failed"}

\* variant: returns as soon as one greenlet is dead
joinall_any(states) == \E i \in DOMAIN states : Dead(states[i])

\* gevent.joinall(glets): every greenlet of the list is dead
joinall(states) == \A i \in DOMAIN states : Dead(states[i])

\* ------------------------------------------------------------------ qtask
\* variant: the command is compared with another word
is_exit_quit(cmd) == cmd = <<"q", "u", "i", "t">>

\* `cmd == 'exit'`
is_exit(cmd) == cmd = S_exit

\* variant: the kind the qtask itself writes, 'ct', is the one relayed
is_cq_ct(name) == name = S_ct

\* variant: the kind is not looked at
is_cq_any(name) == TRUE

\* `name == 'cq'`
is_cq(name) == name = S_cq

\* variant: the qtask does not add its id to the params
qtask_new_params_noappend(params, qtid) == Split(params, "-")

\* params.split('-') + [self.build_id('qtask', qtid)]
qtask_new_params(params, qtid) ==
    Split(params, "-") \o <<build_id(S_qtask, qtid)>>

\* variant: the relayed message keeps the kind 'cq'
qtask_new_msg_cq(idx, new_params) ==
    Join(<<S_queue, build_id(S_cq, idx), Join(new_params, "-")>>, ":")

\* ':'.join(['queue', self.build_id('ct', idx), '-'.join(new_params)])
qtask_new_msg(idx, new_params) ==
    Join(<<S_queue, build_id(S_ct, idx), Join(new_params, "-")>>, ":")

\* ------------------------------------------------------------------ ctask
\* divmod(ctid, self.num_qtasks)[1]
first_dst(ctid, nq) == ctid % nq

\* variant: the destination index is not advanced
next_dst_stuck(dst, nq) == dst % nq

\* divmod(dst_ix + 1, self.num_qtasks)[1]
next_dst(dst, nq) == (dst + 1) % nq

\* variant: off by one, `count <= 1`
count_exhausted_early(cnt) == cnt <= 1

\* `count < 1`
count_exhausted(cnt) == cnt < 1

\* variant: the seed is addressed with the kind 'ct'
ctask_seed_msg_ct(ctid) ==
    Join(<<S_queue, build_id(S_ct, ctid), build_id(S_ctask, ctid)>>, ":")

\* ':'.join(['queue', self.build_id('cq', ctid), self.build_id('ctask', ctid)])
ctask_seed_msg(ctid) ==
    Join(<<S_queue, build_id(S_cq, ctid), build_id(S_ctask, ctid)>>, ":")

\* variant: the ctask puts its id in front of the params
ctask_new_params_prepend(params, ctid) ==
    <<build_id(S_ctask, ctid)>> \o Split(params, "-")

\* params.split('-') + [self.build_id('ctask', ctid)]
ctask_new_params(params, ctid) ==
    Split(params, "-") \o <<build_id(S_ctask, ctid)>>

\* variant: the relayed message is addressed to client queue 0
ctask_new_msg_zero(ctid, new_params) ==
    Join(<<S_queue, build_id(S_cq, 0), Join(new_params, "-")>>, ":")

\* ':'.join(['queue', self.build_id('cq', ctid), '-'.join(new_params)])
ctask_new_msg(ctid, new_params) ==
    Join(<<S_queue, build_id(S_cq, ctid), Join(new_params, "-")>>, ":")

\* ------------------------------------------------------------------- Init
\* A QMark object after __init__: the counts are set, run() has not started.
InitWith(NQ, NC) ==
    /\ num_qtasks \in NQ
    /\ num_ctasks \in NC
    /\ qtask_queues = <<>>
    /\ ctask_queues = <<>>
    /\ qstate = <<>>
    /\ cstate = <<>>
    /\ count = <<>>
    /\ dst_ix = <<>>
    /\ run_pc = "start"
    /\ exit_ix = 0
    /\ csent = <<>>
    /\ crecv = <<>>
    /\ qdeq = <<>>
    /\ qfwd = <<>>
    /\ qenq = <<>>
    /\ result = 0
    /\ harness_pc = "none"
    /\ num_runs_arg = 1
    /\ num_runs = 1
    /\ run_ix = 0
    /\ runs = <<>>
    /\ rlog = <<>>
    /\ left_over = 0
    /\ codec = <<>>

Init == InitWith(1..MaxQtasks, 1..MaxCtasks)

\* the greenlets of the current run exist (lines 37-38 were executed)
Spawned == run_pc \in {"join_cglets", "put_exit", "join_qglets", "done"}

\* ---------------------------------------------------------------- actions
\* One action is one run of a greenlet between two switches (a blocking
\* Queue.get, gevent.sleep(0), joinall).  The locals of a loop iteration are
\* bound with \E over one-element sets, so that each is computed once.
\* run(), lines 34-38: create the queues, spawn the greenlets
RunStart ==
    /\ run_pc = "start"
    /\ qtask_queues' = [i \in Qtasks |-> Queue]
    /\ ctask_queues' = [i \in Ctasks |-> Queue]
    /\ qstate' = [i \in Qtasks |-> "Running"]
    /\ cstate' = [i \in Ctasks |-> "Seeding"]
    /\ count' = [i \in Ctasks |-> 0]
    /\ dst_ix' = [i \in Ctasks |-> 0]
    /\ csent' = [i \in Ctasks |-> <<>>]
    /\ crecv' = [i \in Ctasks |-> <<>>]
    /\ qdeq' = [i \in Qtasks |-> <<>>]
    /\ qfwd' = [i \in Qtasks |-> <<>>]
    /\ qenq' = [i \in Qtasks |-> <<>>]
    /\ run_pc' = "join_cglets"
    /\ UNCHANGED <<num_qtasks, num_ctasks, exit_ix, result, rlog, xvars>>

\* ctask, lines 91-94: set count and dst_ix, put the seed message, then wait
\* on the own queue
CtaskSeed(ctid) ==
    /\ Spawned
    /\ ctid \in Ctasks
    /\ cstate[ctid] = "Seeding"
    /\ count' = [count EXCEPT ![ctid] = num_qtasks]
    /\ IF num_qtasks < 1
       THEN \* divmod by 0 raises ZeroDivisionError; with a negative count
            \* indexing the empty list of queues raises IndexError
            /\ cstate' = [cstate EXCEPT ![ctid] = "Failed"]
            /\ UNCHANGED <<dst_ix, qtask_queues, qenq, csent>>
       ELSE \E dst \in {first_dst(ctid, num_qtasks)} :
            \E new_msg \in {ctask_seed_msg(ctid)} :
                /\ dst_ix' = [dst_ix EXCEPT ![ctid] = dst]
                /\ qtask_queues' =
                     [qtask_queues EXCEPT ![dst] = Queue_put(@, new_msg)]
                /\ qenq' = [qenq EXCEPT ![dst] = Append(@, new_msg)]
                /\ csent' = [csent EXCEPT ![ctid] =
                                Append(@, [dst |-> dst, msg |-> new_msg])]
                /\ cstate' = [cstate EXCEPT ![ctid] = "Relaying"]
    /\ UNCHANGED <<num_qtasks, num_ctasks, ctask_queues, qstate, run_pc,
                   exit_ix, crecv, qdeq, qfwd, result, rlog, xvars>>

\* ctask, lines 95-106: one iteration of the loop over the own queue.
\* Unpacking a split that has not three fields raises ValueError and the
\* greenlet dies.
CtaskRelay(ctid) ==
    /\ Spawned
    /\ ctid \in Ctasks
    /\ cstate[ctid] = "Relaying"
    /\ ctask_queues[ctid] # <<>>
    /\ \E msg \in {Head(ctask_queues[ctid])} :
       \E fields \in {Split(msg, ":")} :
           /\ ctask_queues' = [ctask_queues EXCEPT ![ctid] = Tail(@)]
           /\ crecv' = [crecv EXCEPT ![ctid] = Append(@, msg)]
           /\ IF Len(fields) # 3
              THEN /\ cstate' = [cstate EXCEPT ![ctid] = "Failed"]
                   /\ UNCHANGED <<qtask_queues, qenq, csent, count, dst_ix>>
              ELSE \E dst \in {next_dst(dst_ix[ctid], num_qtasks)} :
                   \E new_params \in {ctask_new_params(fields[3], ctid)} :
                   \E new_msg \in {ctask_new_msg(ctid, new_params)} :
                       /\ dst_ix' = [dst_ix EXCEPT ![ctid] = dst]
                       /\ qtask_queues' =
                            [qtask_queues EXCEPT ![dst] = Queue_put(@, new_msg)]
                       /\ qenq' = [qenq EXCEPT ![dst] = Append(@, new_msg)]
                       /\ csent' = [csent EXCEPT ![ctid] =
                                      Append(@, [dst |-> dst, msg |-> new_msg])]
                       /\ count' = [count EXCEPT ![ctid] = @ - 1]
                       /\ cstate' = [cstate EXCEPT ![ctid] =
                                       IF count_exhausted(count[ctid] - 1)
                                       THEN "Terminated" ELSE "Relaying"]
    /\ UNCHANGED <<num_qtasks, num_ctasks, qstate, run_pc, exit_ix, qdeq, qfwd,
                   result, rlog, xvars>>

\* qtask: the loop ends (break, or an exception kills the greenlet) in
\* state next, without a put
QtaskEnds(qtid, next) ==
    /\ qstate' = [qstate EXCEPT ![qtid] = next]
    /\ UNCHANGED <<ctask_queues, qfwd>>

\* qtask, lines 74-85: one iteration of the loop over the own queue
QtaskStep(qtid) ==
    /\ Spawned
    /\ qtid \in Qtasks
    /\ qstate[qtid] = "Running"
    /\ qtask_queues[qtid] # <<>>
    /\ \E msg \in {Head(qtask_queues[qtid])} :
       \E fields \in {Split(msg, ":")} :
           /\ qtask_queues' = [qtask_queues EXCEPT ![qtid] = Tail(@)]
           /\ qdeq' = [qdeq EXCEPT ![qtid] = Append(@, msg)]
           /\ IF Len(fields) # 3
              THEN QtaskEnds(qtid, "Failed")            \* unpacking ValueError
              ELSE IF is_exit(fields[1])
              THEN QtaskEnds(qtid, "Terminated")        \* break
              ELSE \E id \in {parse_id(fields[2])} :
                   \E new_params \in {qtask_new_params(fields[3], qtid)} :
                       IF ~id.ok
                       THEN QtaskEnds(qtid, "Failed")   \* parse_id ValueError
                       ELSE IF ~is_cq(id.name)
                       THEN UNCHANGED <<qstate, ctask_queues, qfwd>>
                       ELSE IF id.idx >= num_ctasks
                       THEN QtaskEnds(qtid, "Failed")   \* IndexError
                       ELSE \E new_msg \in {qtask_new_msg(id.idx, new_params)} :
                            /\ ctask_queues' = [ctask_queues EXCEPT
                                                  ![id.idx] =
                                                      Queue_put(@, new_msg)]
                            /\ qfwd' = [qfwd EXCEPT ![qtid] =
                                          Append(@, [dst |-> id.idx,
                                                     msg |-> new_msg])]
                            /\ UNCHANGED qstate
    /\ UNCHANGED <<num_qtasks, num_ctasks, cstate, count, dst_ix, run_pc,
                   exit_ix, csent, crecv, qenq, result, rlog, xvars>>

\* run(), line 39: gevent.joinall(cglets) returns
JoinCglets ==
    /\ run_pc = "join_cglets"
    /\ joinall(cstate)
    /\ run_pc' = IF num_qtasks > 0 THEN "put_exit" ELSE "join_qglets"
    /\ exit_ix' = 0
    /\ UNCHANGED <<num_qtasks, num_ctasks, qtask_queues, ctask_queues, qstate,
                   cstate, count, dst_ix, csent, crecv, qdeq, qfwd, qenq,
                   result, rlog, xvars>>

\* run(), lines 40-41: one iteration of `for qq in self.qtask_queues`
PutExit ==
    /\ run_pc = "put_exit"
    /\ qtask_queues' =
         [qtask_queues EXCEPT ![exit_ix] = Queue_put(@, ExitMsg)]
    /\ qenq' = [qenq EXCEPT ![exit_ix] = Append(@, ExitMsg)]
    /\ exit_ix' = exit_ix + 1
    /\ run_pc' = IF exit_ix + 1 < num_qtasks THEN "put_exit" ELSE "join_qglets"
    /\ UNCHANGED <<num_qtasks, num_ctasks, ctask_queues, qstate, cstate, count,
                   dst_ix, csent, crecv, qdeq, qfwd, result, rlog, xvars>>

\* run(), lines 42-44: gevent.joinall(qglets) returns and run returns the
\* time that elapsed since line 34, some positive number of clock ticks
JoinQglets ==
    /\ run_pc = "join_qglets"
    /\ joinall(qstate)
    /\ \E elapsed \in 1..MaxElapsed :
           /\ result' = elapsed
           /\ rlog' = Append(rlog, elapsed)
    /\ run_pc' = "done"
    /\ UNCHANGED <<num_qtasks, num_ctasks, qtask_queues, ctask_queues, qstate,
                   cstate, count, dst_ix, exit_ix, csent, crecv, qdeq, qfwd,
                   qenq, xvars>>

\* ------------------------------------------------------------- run_qmark
\* variant: num_runs is used as passed
clamp_runs_none(n) == n

\* lines 125-126: `if num_runs < 1: num_runs = 1`
clamp_runs(n) == IF n < 1 THEN 1 ELSE n

\* number of messages in the queues 0..(n - 1) of the list queues
RECURSIVE Held(_, _)
Held(queues, n) ==
    IF n = 0 THEN 0 ELSE Len(queues[n - 1]) + Held(queues, n - 1)

\* run_qmark is called: no QMark object exists yet
HarnessInit ==
    /\ num_qtasks \in 0..MaxHarnessQtasks
    /\ num_ctasks \in 1..MaxHarnessCtasks
    /\ num_runs_arg \in (-1)..MaxRuns
    /\ num_runs = num_runs_arg
    /\ harness_pc = "call"
    /\ run_pc = "none"
    /\ run_ix = 0
    /\ runs = <<>>
    /\ rlog = <<>>
    /\ left_over = 0
    /\ result = 0
    /\ exit_ix = 0
    /\ qtask_queues = <<>>
    /\ ctask_queues = <<>>
    /\ qstate = <<>>
    /\ cstate = <<>>
    /\ count = <<>>
    /\ dst_ix = <<>>
    /\ csent = <<>>
    /\ crecv = <<>>
    /\ qdeq = <<>>
    /\ qfwd = <<>>
    /\ qenq = <<>>
    /\ codec = <<>>

\* run_qmark, lines 125-127: clamp num_runs, runs = []
HarnessBegin ==
    /\ harness_pc = "call"
    /\ num_runs' = clamp_runs(num_runs)
    /\ runs' = <<>>
    /\ run_ix' = 0
    /\ harness_pc' = "loop"
    /\ UNCHANGED <<num_qtasks, num_ctasks, qtask_queues, ctask_queues, qstate,
                   cstate, count, dst_ix, run_pc, exit_ix, csent, crecv, qdeq,
                   qfwd, qenq, result, num_runs_arg, rlog, left_over, codec>>

\* run_qmark, lines 128-130: the loop goes on, `qmark = QMark(...)` makes a
\* new object, which has the two counts and no queues, and run is called
HarnessIter ==
    /\ harness_pc = "loop"
    /\ run_ix < num_runs
    /\ harness_pc' = "in_run"
    /\ run_pc' = "start"
    /\ exit_ix' = 0
    /\ qtask_queues' = <<>>
    /\ ctask_queues' = <<>>
    /\ qstate' = <<>>
    /\ cstate' = <<>>
    /\ count' = <<>>
    /\ dst_ix' = <<>>
    /\ csent' = <<>>
    /\ crecv' = <<>>
    /\ qdeq' = <<>>
    /\ qfwd' = <<>>
    /\ qenq' = <<>>
    /\ UNCHANGED <<num_qtasks, num_ctasks, result, num_runs_arg, num_runs,
                   run_ix, runs, rlog, left_over, codec>>

\* run_qmark, lines 130-131: run has returned, `runs.append(result)`
HarnessAppend ==
    /\ harness_pc = "in_run"
    /\ run_pc = "done"
    /\ runs' = Append(runs, result)
    /\ run_ix' = run_ix + 1
    /\ left_over' = Held(qtask_queues, Cardinality(DOMAIN qtask_queues))
                      + Held(ctask_queues, Cardinality(DOMAIN ctask_queues))
    /\ harness_pc' = "loop"
    /\ UNCHANGED <<num_qtasks, num_ctasks, qtask_queues, ctask_queues, qstate,
                   cstate, count, dst_ix, run_pc, exit_ix, csent, crecv, qdeq,
                   qfwd, qenq, result, num_runs_arg, num_runs, rlog, codec>>

\* run_qmark, lines 128 and 132: the loop is over, `return runs`
HarnessReturn ==
    /\ harness_pc = "loop"
    /\ run_ix >= num_runs
    /\ harness_pc' = "returned"
    /\ UNCHANGED <<num_qtasks, num_ctasks, qtask_queues, ctask_queues, qstate,
                   cstate, count, dst_ix, run_pc, exit_ix, csent, crecv, qdeq,
                   qfwd, qenq, result, num_runs_arg, num_runs, run_ix, runs,
                   rlog, left_over, codec>>

Next ==
    \/ RunStart
    \/ \E ctid \in 0..(MaxCtasks - 1) : CtaskSeed(ctid)
    \/ \E ctid \in 0..(MaxCtasks - 1) : CtaskRelay(ctid)
    \/ \E qtid \in 0..(MaxQtasks - 1) : QtaskStep(qtid)
    \/ JoinCglets
    \/ PutExit
    \/ JoinQglets

Spec == Init /\ [][Next]_vars

\* gevent runs every ready greenlet in turn: each task that can take a step
\* eventually takes it.
Fairness ==
    /\ WF_vars(RunStart)
    /\ \A ctid \in 0..(MaxCtasks - 1) : WF_vars(CtaskSeed(ctid))
    /\ \A ctid \in 0..(MaxCtasks - 1) : WF_vars(CtaskRelay(ctid))
    /\ \A qtid \in 0..(MaxQtasks - 1) : WF_vars(QtaskStep(qtid))
    /\ WF_vars(JoinCglets)
    /\ WF_vars(PutExit)
    /\ WF_vars(JoinQglets)

FairSpec == Spec /\ Fairness

\* ------------------------------------------------ qtask on any messages
\* Messages put on a qtask queue by whoever holds the queue: well-formed
\* 'queue' messages of the kinds qq, ct, ctask and cq, and 'exit::'.
InboxMsgs ==
    { S_queue \o <<":", "q", "q", "(", "0", ")", ":">> \o build_id(S_ctask, 0),
      S_queue \o <<":">> \o build_id(S_ct, 0) \o <<":">>
              \o build_id(S_ctask, 0) \o <<"-">> \o build_id(S_qtask, 0),
      S_queue \o <<":">> \o build_id(S_ctask, 0) \o <<":">>,
      S_queue \o <<":">> \o build_id(S_cq, 0) \o <<":">> \o build_id(S_ctask, 0),
      ExitMsg }

SeqsUpTo(S, n) == UNION {[1..k -> S] : k \in 0..n}

\* A run in which the greenlets are spawned, the ctasks wait on their queues
\* and one qtask queue holds up to MaxInbox messages of InboxMsgs.
InboxInit ==
    /\ num_qtasks \in 1..MaxQtasks
    /\ num_ctasks \in 1..MaxCtasks
    /\ \E s \in 0..(num_qtasks - 1) : \E inbox \in SeqsUpTo(InboxMsgs, MaxInbox) :
           /\ qtask_queues = [i \in 0..(num_qtasks - 1) |->
                                 IF i = s THEN inbox ELSE <<>>]
           /\ qenq = qtask_queues
    /\ ctask_queues = [i \in 0..(num_ctasks - 1) |-> <<>>]
    /\ qstate = [i \in 0..(num_qtasks - 1) |-> "Running"]
    /\ cstate = [i \in 0..(num_ctasks - 1) |-> "Relaying"]
    /\ count = [i \in 0..(num_ctasks - 1) |-> num_qtasks]
    /\ dst_ix = [i \in 0..(num_ctasks - 1) |-> i % num_qtasks]
    /\ csent = [i \in 0..(num_ctasks - 1) |-> <<>>]
    /\ crecv = [i \in 0..(num_ctasks - 1) |-> <<>>]
    /\ qdeq = [i \in 0..(num_qtasks - 1) |-> <<>>]
    /\ qfwd = [i \in 0..(num_qtasks - 1) |-> <<>>]
    /\ run_pc = "join_cglets"
    /\ exit_ix = 0
    /\ result = 0
    /\ harness_pc = "none"
    /\ num_runs_arg = 1
    /\ num_runs = 1
    /\ run_ix = 0
    /\ runs = <<>>
    /\ rlog = <<>>
    /\ left_over = 0
    /\ codec = <<>>

InboxNext == \E qtid \in 0..(MaxQtasks - 1) : QtaskStep(qtid)

InboxSpec == InboxInit /\ [][InboxNext]_vars

\* ------------------------------------------------------------ codec calls
\* variant: the payload tokens are joined with the field separator
envelope_encode_colon(cmd, target, tokens) ==
    Join(<<cmd, target, Join(tokens, ":")>>, ":")

\* the encoding both tasks use:
\* ':'.join([cmd, target, '-'.join(tokens)])
envelope_encode(cmd, target, tokens) ==
    Join(<<cmd, target, Join(tokens, "-")>>, ":")

\* the decoding both tasks use: `cmd, qidx, params = msg.split(':')`, then
\* `params.split('-')`; ok is FALSE where the unpacking raises ValueError
envelope_decode(text) ==
    LET fields == Split(text, ":") IN
    IF Len(fields) # 3
    THEN [ok |-> FALSE, cmd |-> <<>>, target |-> <<>>, tokens |-> <<>>]
    ELSE [ok |-> TRUE, cmd |-> fields[1], target |-> fields[2],
          tokens |-> Split(fields[3], "-")]

\* kinds without '(' and ')', the empty kind included
KindChars == {"c", "q", "7"}

Kinds == SeqsUpTo(KindChars, MaxKindLen)

\* payload tokens without ':' and '-', the empty token included
PayloadTokens == {<<>>, <<"a">>, build_id(S_qtask, 1)}

CodecInputs ==
    [op : {"id"}, kind : Kinds, idx : 0..MaxIdx, cmd : {<<>>}, target : {<<>>},
     tokens : {<<>>}, stage : {"in"}, text : {<<>>}, out : {<<>>}]
    \cup
    [op : {"envelope"}, kind : {<<>>}, idx : {0}, cmd : {S_queue, S_exit},
     target : {<<>>, build_id(S_cq, 0)},
     tokens : SeqsUpTo(PayloadTokens, MaxTokens),
     stage : {"in"}, text : {<<>>}, out : {<<>>}]

\* A QMark object on which only the codec is exercised, on one input
CodecInit ==
    /\ codec \in CodecInputs
    /\ num_qtasks = 1
    /\ num_ctasks = 1
    /\ qtask_queues = <<>>
    /\ ctask_queues = <<>>
    /\ qstate = <<>>
    /\ cstate = <<>>
    /\ count = <<>>
    /\ dst_ix = <<>>
    /\ run_pc = "none"
    /\ exit_ix = 0
    /\ csent = <<>>
    /\ crecv = <<>>
    /\ qdeq = <<>>
    /\ qfwd = <<>>
    /\ qenq = <<>>
    /\ result = 0
    /\ harness_pc = "none"
    /\ num_runs_arg = 1
    /\ num_runs = 1
    /\ run_ix = 0
    /\ runs = <<>>
    /\ rlog = <<>>
    /\ left_over = 0

CodecFrame ==
    UNCHANGED <<num_qtasks, num_ctasks, qtask_queues, ctask_queues, qstate,
                cstate, count, dst_ix, run_pc, exit_ix, csent, crecv, qdeq,
                qfwd, qenq, result, harness_pc, num_runs_arg, num_runs, run_ix,
                runs, rlog, left_over>>

\* build_id(kind, idx)
CodecBuildId ==
    /\ codec.op = "id" /\ codec.stage = "in"
    /\ codec' = [codec EXCEPT !.text = build_id(codec.kind, codec.idx),
                              !.stage = "built"]
    /\ CodecFrame

\* parse_id(tid) on the identifier built
CodecParseId ==
    /\ codec.op = "id" /\ codec.stage = "built"
    /\ codec' = [codec EXCEPT !.out = parse_id(codec.text), !.stage = "done"]
    /\ CodecFrame

\* the two joins of lines 83 and 101
CodecEncode ==
    /\ codec.op = "envelope" /\ codec.stage = "in"
    /\ codec' = [codec EXCEPT
                   !.text = envelope_encode(codec.cmd, codec.target, codec.tokens),
                   !.stage = "built"]
    /\ CodecFrame

\* the two splits of lines 75, 81 and 96, 100
CodecDecode ==
    /\ codec.op = "envelope" /\ codec.stage = "built"
    /\ codec' = [codec EXCEPT !.out = envelope_decode(codec.text),
                              !.stage = "done"]
    /\ CodecFrame

CodecNext == CodecBuildId \/ CodecParseId \/ CodecEncode \/ CodecDecode

CodecSpec == CodecInit /\ [][CodecNext]_vars

\* run_qmark with every run it makes
HarnessNext ==
    \/ HarnessBegin
    \/ HarnessIter
    \/ HarnessAppend
    \/ HarnessReturn
    \/ Next

HarnessSpec == HarnessInit /\ [][HarnessNext]_vars

\* ------------------------------------------------- reading the histories
Last(seq) == seq[Len(seq)]

MsgCmd(msg) == Split(msg, ":")[1]

MsgTarget(msg) == Split(msg, ":")[2]

MsgTokens(msg) == Split(Split(msg, ":")[3], "-")

IsQueueMsg(msg) == MsgCmd(msg) = S_queue

IsExitMsg(msg) == MsgCmd(msg) = S_exit

\* the client a 'queue' message originates from: its first path token
IsFromClient(msg, c) ==
    IsQueueMsg(msg) /\ MsgTokens(msg)[1] = S_ctask \o <<"(", Digits[c + 1], ")">>

NumQueueMsgs(seq) == Len(SelectSeq(seq, IsQueueMsg))

NumExitMsgs(seq) == Len(SelectSeq(seq, IsExitMsg))

NumFromClient(seq, c) == Len(SelectSeq(seq, LAMBDA m : IsFromClient(m, c)))

AllTerminated(states) == \A i \in DOMAIN states : states[i] = "Terminated"

\* ----------------------------------------------------------------- claims

\* C1: under fair scheduling every run with num_qtasks >= 1 and
\* num_ctasks >= 1 reaches the state where run has returned with every
\* ctask and every qtask Terminated (no task waits forever on its queue).
C1_Termination ==
    <>(run_pc = "done" /\ AllTerminated(cstate) /\ AllTerminated(qstate))

C1_Witness ==
    /\ run_pc = "done"
    /\ num_qtasks = 2 /\ num_ctasks = 2
    /\ AllTerminated(cstate) /\ AllTerminated(qstate)

\* C2 (as claimed): every qtask s dequeues exactly one 'queue' message
\* originating from every ctask c over one run: never more than one, and
\* exactly one once the run has returned.
C2_OncePerServer ==
    \A s \in DOMAIN qdeq : \A c \in DOMAIN cstate :
        /\ NumFromClient(qdeq[s], c) <= 1
        /\ run_pc = "done" => NumFromClient(qdeq[s], c) = 1

\* C3 (as claimed): every ctask puts exactly num_qtasks messages on qtask
\* queues over its lifetime: never more, and exactly that many once it is
\* Terminated.
C3_NumQtasksPuts ==
    \A c \in DOMAIN csent :
        /\ Len(csent[c]) <= num_qtasks
        /\ cstate[c] = "Terminated" => Len(csent[c]) = num_qtasks

C5_DestinationSequence ==
    \A c \in DOMAIN csent :
        \A k \in 1..Len(csent[c]) :
            csent[c][k].dst = (c + (k - 1)) % num_qtasks

C5_Witness ==
    \E c \in DOMAIN csent :
        /\ num_qtasks = 2
        /\ c = 1
        /\ Len(csent[c]) = 3
        /\ csent[c][2].dst = 0
        /\ csent[c][3].dst = 1

\* C6: every qtask queue receives at most one 'exit' message, exactly one
\* once the loop of puts is over, and nothing is put on the queue after it;
\* a qtask that dequeued 'exit' is Terminated, and a Terminated qtask never
\* dequeues again.
C6_ExitState ==
    \A s \in DOMAIN qenq :
        /\ NumExitMsgs(qenq[s]) <= 1
        /\ NumExitMsgs(qenq[s]) = 1 => IsExitMsg(Last(qenq[s]))
        /\ run_pc \in {"join_qglets", "done"} => NumExitMsgs(qenq[s]) = 1
        /\ NumExitMsgs(qdeq[s]) > 0 => qstate[s] = "Terminated"
        /\ qstate[s] = "Terminated" => IsExitMsg(Last(qdeq[s]))

C6_ExitStep ==
    \A s \in DOMAIN qstate :
        qstate[s] = "Terminated" =>
            /\ qstate'[s] = "Terminated"
            /\ qdeq'[s] = qdeq[s]
            /\ qtask_queues'[s] = qtask_queues[s]

\* C6: exit signalling: in every state each qtask queue has received at most
\* one 'exit', which is then the last message put on it, and in every step
\* a Terminated qtask stays Terminated and dequeues nothing.
C6_ExitSignalling == [](C6_ExitState) /\ [][C6_ExitStep]_vars

C6_Witness ==
    /\ run_pc = "done"
    /\ num_qtasks = 2
    /\ \A s \in DOMAIN qenq :
         /\ NumExitMsgs(qenq[s]) = 1
         /\ Len(qenq[s]) > 1
         /\ qstate[s] = "Terminated"

\* C7: an 'exit' message is on (or has been on) a qtask queue only when
\* every ctask is Terminated; no qtask is Terminated while a ctask is
\* Seeding or Relaying; nothing is put on the queue of a Terminated qtask.
C7_OrderState ==
    /\ (\E s \in DOMAIN qenq : NumExitMsgs(qenq[s]) > 0) =>
           AllTerminated(cstate)
    /\ (\E s \in DOMAIN qstate : qstate[s] = "Terminated") =>
           AllTerminated(cstate)

C7_OrderStep ==
    /\ (\E s \in DOMAIN qenq : NumExitMsgs(qenq'[s]) > NumExitMsgs(qenq[s]))
           => AllTerminated(cstate)
    /\ \A s \in DOMAIN qstate :
           qstate[s] = "Terminated" => qenq'[s] = qenq[s]

\* C7: orchestrator order: 'exit' is put only when every ctask is
\* Terminated, no qtask is Terminated before that, and no step puts a
\* message on the queue of a Terminated qtask.
C7_OrchestratorOrder == [](C7_OrderState) /\ [][C7_OrderStep]_vars

C7_Witness ==
    /\ run_pc = "put_exit"
    /\ num_ctasks = 2
    /\ \E s \in DOMAIN qstate : qstate[s] = "Terminated"
    /\ \E s \in DOMAIN qstate : qstate[s] = "Running"

\* C8: every 'queue' message a qtask dequeues has the target kind 'cq' and
\* results in exactly one put on a client queue: none is dropped.
C8_NoDrop ==
    \A s \in DOMAIN qdeq :
        /\ Len(qfwd[s]) = NumQueueMsgs(qdeq[s])
        /\ \A k \in 1..Len(qdeq[s]) :
               IsQueueMsg(qdeq[s][k]) =>
                   SubSeq(MsgTarget(qdeq[s][k]), 1, 3) = <<"c", "q", "(">>

C8_Witness ==
    \E s \in DOMAIN qdeq :
        /\ NumQueueMsgs(qdeq[s]) >= 2
        /\ Len(qfwd[s]) >= 2

\* C9: a ctask dequeues at most num_qtasks messages, it is Terminated
\* exactly when it has dequeued num_qtasks of them, and once Terminated it
\* dequeues nothing more, whatever is queued for it.
C9_ConsumeState ==
    \A c \in DOMAIN crecv :
        /\ Len(crecv[c]) <= num_qtasks
        /\ cstate[c] = "Terminated" <=> Len(crecv[c]) = num_qtasks

C9_ConsumeStep ==
    \A c \in DOMAIN cstate :
        cstate[c] = "Terminated" =>
            /\ cstate'[c] = "Terminated"
            /\ crecv'[c] = crecv[c]
            /\ Len(ctask_queues'[c]) >= Len(ctask_queues[c])
            /\ SubSeq(ctask_queues'[c], 1, Len(ctask_queues[c]))
                   = ctask_queues[c]

\* C9: consumption bound: a ctask is Terminated exactly when it has
\* dequeued num_qtasks messages and no step makes a Terminated ctask
\* dequeue again.
C9_ConsumptionBound == [](C9_ConsumeState) /\ [][C9_ConsumeStep]_vars

C9_Witness ==
    \E c \in DOMAIN cstate :
        /\ cstate[c] = "Terminated"
        /\ num_qtasks = 2
        /\ Len(crecv[c]) = 2
        /\ ctask_queues[c] # <<>>

\* C10: when a Running qtask s dequeues the message 'queue:cq(i):p', it
\* puts exactly 'queue:ct(i):p-qtask(s)' on client queue i, changes no other
\* client queue, only pops its own queue, and stays Running.
C10_Request(i) == S_queue \o <<":">> \o S_cq \o <<"(", Digits[i + 1], ")", ":">>

C10_Reply(i, p, s) ==
    S_queue \o <<":">> \o S_ct \o <<"(", Digits[i + 1], ")", ":">> \o p
            \o <<"-">> \o S_qtask \o <<"(", Digits[s + 1], ")">>

C10_RelayStep ==
    \A s \in DOMAIN qstate : \A i \in DOMAIN ctask_queues :
        ( /\ qstate[s] = "Running"
          /\ qtask_queues[s] # <<>>
          /\ qdeq'[s] # qdeq[s]
          /\ Len(Head(qtask_queues[s])) > Len(C10_Request(i))
          /\ SubSeq(Head(qtask_queues[s]), 1, Len(C10_Request(i)))
                 = C10_Request(i) )
        => LET m == Head(qtask_queues[s])
               p == SubSeq(m, Len(C10_Request(i)) + 1, Len(m))
           IN  /\ ctask_queues' = [ctask_queues EXCEPT
                                     ![i] = Append(@, C10_Reply(i, p, s))]
               /\ qtask_queues' = [qtask_queues EXCEPT ![s] = Tail(@)]
               /\ qstate'[s] = "Running"

\* C10: server relay step: every step in which a Running qtask s dequeues
\* 'queue:cq(i):p' puts 'queue:ct(i):p-qtask(s)' on client queue i only and
\* leaves s Running.
C10_ServerRelay == [][C10_RelayStep]_vars

C10_Witness ==
    \E s \in DOMAIN qfwd :
        /\ s = 0
        /\ num_qtasks = 2
        /\ Len(qfwd[s]) > 0
        /\ Last(qfwd[s]).dst = 1
        /\ Len(MsgTokens(Last(qfwd[s]).msg)) = 4
        /\ ctask_queues[1] # <<>>
        /\ Last(ctask_queues[1]) = Last(qfwd[s]).msg

\* C12: run_qmark makes exactly max(1, num_runs) runs, one after another,
\* and returns exactly that many samples, in the order the runs returned
\* them.
C12_Max1(n) == IF n < 1 THEN 1 ELSE n

C12_RunsState ==
    /\ Len(rlog) <= C12_Max1(num_runs_arg)
    /\ Len(runs) <= Len(rlog)
    /\ runs = SubSeq(rlog, 1, Len(runs))
    /\ harness_pc = "returned" =>
           /\ Len(runs) = C12_Max1(num_runs_arg)
           /\ runs = rlog

C12_RunsStep ==
    (run_pc = "start" /\ run_pc' = "join_cglets") =>
        /\ Len(rlog) = Len(runs)
        /\ Len(runs) = run_ix
        /\ run_ix < C12_Max1(num_runs_arg)

\* C12: in every state the samples collected are the values the finished
\* runs returned, in order, and at the return there are max(1, num_runs) of
\* them; a run starts only when every earlier run has returned its sample.
C12_RunCount == [](C12_RunsState) /\ [][C12_RunsStep]_vars

C12_Witness ==
    /\ harness_pc = "returned"
    /\ num_runs_arg = 2
    /\ Len(runs) = 2
    /\ runs[1] # runs[2]

C12_WitnessClamped ==
    /\ harness_pc = "returned"
    /\ num_runs_arg < 1
    /\ Len(runs) = 1

\* C13: when an iteration of run_qmark starts its run, every qtask queue and
\* every ctask queue is empty, every qtask is Running and every ctask is
\* Seeding, whatever the previous run left in its queues.
C13_FreshStep ==
    (harness_pc = "in_run" /\ run_pc = "start" /\ run_pc' = "join_cglets") =>
        /\ DOMAIN qtask_queues' = 0..(num_qtasks - 1)
        /\ DOMAIN ctask_queues' = 0..(num_ctasks - 1)
        /\ \A i \in DOMAIN qtask_queues' :
               qtask_queues'[i] = <<>> /\ qstate'[i] = "Running"
        /\ \A i \in DOMAIN ctask_queues' :
               ctask_queues'[i] = <<>> /\ cstate'[i] = "Seeding"

\* C13: no state is carried across runs: every step that starts the run of
\* an iteration leaves all queues empty and all tasks in their initial state.
C13_NoCarryOver == [][C13_FreshStep]_vars

C13_Witness ==
    /\ harness_pc = "in_run"
    /\ run_pc = "join_cglets"
    /\ Len(runs) = 1
    /\ left_over > 0
    /\ num_qtasks = 1
    /\ \A i \in DOMAIN qtask_queues : qtask_queues[i] = <<>>
    /\ \A i \in DOMAIN ctask_queues :
           ctask_queues[i] = <<>> /\ cstate[i] = "Seeding"

\* C16 (as claimed): with num_qtasks < 1 and num_ctasks >= 1 the run does
\* not return and run_qmark collects no elapsed-time sample.
C16_ConfigError ==
    (num_qtasks < 1 /\ num_ctasks >= 1) =>
        /\ run_pc # "done"
        /\ runs = <<>>
        /\ harness_pc # "returned"

\* C11: when a Running qtask dequeues a 'queue' message whose target parses
\* and has a kind other than 'cq', the step puts nothing on any queue, raises
\* no error (the qtask stays Running) and only pops the qtask's own queue.
C11_DropStep ==
    \A s \in DOMAIN qstate :
        ( /\ qstate[s] = "Running"
          /\ qtask_queues[s] # <<>>
          /\ qdeq'[s] # qdeq[s]
          /\ Len(Split(Head(qtask_queues[s]), ":")) = 3
          /\ MsgCmd(Head(qtask_queues[s])) = S_queue
          /\ parse_id(MsgTarget(Head(qtask_queues[s]))).ok
          /\ parse_id(MsgTarget(Head(qtask_queues[s]))).name # S_cq )
        => /\ ctask_queues' = ctask_queues
           /\ qfwd' = qfwd
           /\ qstate' = qstate
           /\ qtask_queues' = [qtask_queues EXCEPT ![s] = Tail(@)]

C14_IdRoundTrip ==
    (codec # <<>> /\ codec.op = "id" /\ codec.stage = "done") =>
        /\ codec.out.ok
        /\ codec.out.name = codec.kind
        /\ codec.out.idx = codec.idx

C14_Witness ==
    /\ codec # <<>>
    /\ codec.op = "id" /\ codec.stage = "done"
    /\ codec.kind = <<"c", "7">>
    /\ codec.idx = 10
    /\ codec.text = <<"c", "7", "(", "1", "0", ")">>
    /\ codec.out.idx = 10

\* C15 (as claimed): envelope round trip: decoding the encoding of any
\* command, target and payload token sequence, the empty sequence included,
\* gives the same triple.
C15_RoundTripOriginal ==
    (codec # <<>> /\ codec.op = "envelope" /\ codec.stage = "done") =>
        /\ codec.out.ok
        /\ codec.out.cmd = codec.cmd
        /\ codec.out.target = codec.target
        /\ codec.out.tokens = codec.tokens

\* C15 (amended): decoding the encoding gives the same command and target,
\* and the same payload tokens when there is at least one token; the empty
\* token sequence encodes to an empty payload field, which decodes to the
\* one-element sequence holding the empty token.
C15_RoundTrip ==
    (codec # <<>> /\ codec.op = "envelope" /\ codec.stage = "done") =>
        /\ codec.out.ok
        /\ codec.out.cmd = codec.cmd
        /\ codec.out.target = codec.target
        /\ Len(codec.tokens) >= 1 => codec.out.tokens = codec.tokens
        /\ codec.tokens = <<>> => codec.out.tokens = << <<>> >>

C15_Witness ==
    /\ codec # <<>>
    /\ codec.op = "envelope" /\ codec.stage = "done"
    /\ codec.tokens = <<>>
    /\ codec.text = S_queue \o <<":", "c", "q", "(", "0", ")", ":">>
    /\ codec.out.tokens = << <<>> >>

C15_WitnessTokens ==
    /\ codec # <<>>
    /\ codec.op = "envelope" /\ codec.stage = "done"
    /\ Len(codec.tokens) = 2
    /\ codec.out.tokens = codec.tokens

\* C17: single token per client: in every state at most one message that
\* originates from ctask c is held by the qtask queues and the ctask queues
\* together.
RECURSIVE C17_Held(_, _, _)
C17_Held(queues, n, c) ==
    IF n = 0 THEN 0
    ELSE NumFromClient(queues[n - 1], c) + C17_Held(queues, n - 1, c)

C17_InFlight(c) ==
    C17_Held(qtask_queues, Cardinality(DOMAIN qtask_queues), c)
        + C17_Held(ctask_queues, Cardinality(DOMAIN ctask_queues), c)

\* C17: for every ctask c, at most one message originating from c is in
\* the system.
C17_SingleToken == \A c \in DOMAIN cstate : C17_InFlight(c) <= 1

C17_Witness ==
    /\ num_ctasks = 2
    /\ num_qtasks = 2
    /\ C17_InFlight(0) = 1
    /\ C17_InFlight(1) = 1
    /\ NumFromClient(ctask_queues[0], 0) = 1
    /\ NumFromClient(qtask_queues[0], 1) = 1
    /\ cstate[0] = "Relaying"

\* C18: when run has returned, every qtask queue is empty and every ctask
\* queue holds exactly one message, which its Terminated ctask never
\* dequeued.
C18_Residue ==
    run_pc = "done" =>
        /\ \A s \in DOMAIN qtask_queues : qtask_queues[s] = <<>>
        /\ \A c \in DOMAIN ctask_queues :
               /\ Len(ctask_queues[c]) = 1
               /\ cstate[c] = "Terminated"
               /\ \A k \in 1..Len(crecv[c]) : crecv[c][k] # ctask_queues[c][1]

C18_Witness ==
    /\ run_pc = "done"
    /\ num_qtasks = 2
    /\ num_ctasks = 2
    /\ Len(ctask_queues[0]) = 1
    /\ Len(ctask_queues[1]) = 1
    /\ Len(MsgTokens(ctask_queues[1][1])) = 6

\* C19: no misrouting: every message in ctask queue i has the target ct(i)
\* and a payload that alternates ctask(i), qtask(_), ..., ctask(i), qtask(_).
C19_NoMisrouting ==
    \A i \in DOMAIN ctask_queues :
        \A k \in 1..Len(ctask_queues[i]) :
            LET m    == ctask_queues[i][k]
                toks == MsgTokens(m)
            IN  /\ MsgCmd(m) = S_queue
                /\ MsgTarget(m) = <<"c", "t", "(", Digits[i + 1], ")">>
                /\ Len(toks) % 2 = 0
                /\ \A j \in 1..Len(toks) :
                     IF j % 2 = 1
                     THEN toks[j] = S_ctask \o <<"(", Digits[i + 1], ")">>
                     ELSE /\ Len(toks[j]) = 8
                          /\ SubSeq(toks[j], 1, 6) = S_qtask \o <<"(">>
                          /\ IsDigit(toks[j][7])
                          /\ toks[j][8] = ")"

C19_Witness ==
    /\ num_ctasks = 2
    /\ DOMAIN ctask_queues = {0, 1}
    /\ ctask_queues[1] # <<>>
    /\ Len(MsgTokens(ctask_queues[1][1])) = 4
    /\ ctask_queues[0] # <<>>

\* C20: bounded occupancy: every qtask queue holds at most num_ctasks
\* 'queue' messages and at most one 'exit'; every ctask queue holds at most
\* one message.
C20_Occupancy ==
    /\ \A s \in DOMAIN qtask_queues :
           /\ NumQueueMsgs(qtask_queues[s]) <= num_ctasks
           /\ NumExitMsgs(qtask_queues[s]) <= 1
    /\ \A c \in DOMAIN ctask_queues : Len(ctask_queues[c]) <= 1

C20_Witness ==
    /\ num_ctasks = 2
    /\ 0 \in DOMAIN qtask_queues
    /\ NumQueueMsgs(qtask_queues[0]) = 2
    /\ NumExitMsgs(qtask_queues[0]) = 1
====
